---- MODULE Spec2Model ----
(***************************************************************************)
(* BackgroundTaskRunner (src/src/index.js): the retry executor runTask,    *)
(* the scheduling chain scheduleNext and the lifecycle calls start, stop,  *)
(* awaitShutdown and stopAndWait of one runner instance, on the single     *)
(* event loop of the JavaScript runtime.  One action is one macrotask (a   *)
(* public call, a timer expiry or the settling of the task promise)        *)
(* together with the microtasks it triggers.                               *)
(***************************************************************************)
EXTENDS Integers, Sequences, FiniteSets, TLC

\* ---- bounds of the model ----
MaxFirings == 3        \* scheduleNext calls (timers / latches created) per behaviour
MaxRetryRuns == 4      \* largest maxRetries a runner is configured with

FiringIds == 1..MaxFirings

\* ---- configuration ----
validStrategies == {"exponential", "linear", "constant"}

DEFAULT_CONFIG ==
    [ pollingPeriodSeconds |-> 60,
      maxRetries           |-> 5,
      baseRetryDelayMs     |-> 1000,
      backoffStrategy      |-> "exponential",
      initialDelayMs       |-> 5000,
      taskTimeoutMs        |-> 0,
      onError              |-> FALSE ]

\* taskTimeoutMs values a caller configures: disabled (the default), or the 30 s
\* of the README's timeout example
TaskTimeouts == {0, 30000}

\* the maxRetries of a lifecycle run: the task is called once, or failed once and
\* called again after a backoff wait
LifecycleRetries == {1, 2}

\* the userConfig objects handed to the constructor, maxRetries up to maxR
UserConfigs(maxR) ==
    [ maxRetries      : 1..maxR,
      backoffStrategy : validStrategies,
      taskTimeoutMs   : TaskTimeouts,
      onError         : BOOLEAN ]

\* { ...DEFAULT_CONFIG, ...userConfig }
mergeConfig(userConfig) ==
    [ DEFAULT_CONFIG EXCEPT !.maxRetries      = userConfig.maxRetries,
                            !.backoffStrategy = userConfig.backoffStrategy,
                            !.taskTimeoutMs   = userConfig.taskTimeoutMs,
                            !.onError         = userConfig.onError ]

validateConfig(c) ==
    /\ c.pollingPeriodSeconds > 0
    /\ c.maxRetries >= 1
    /\ c.backoffStrategy \in validStrategies

\* ---- errors ----
TaskError == "boom"                 \* the error a failing task rejects with
TimeoutError == "Task timed out"    \* the rejection of the timeout race
NoError == "none"

\* ---- the task ----
\* the taskFn handed to the constructor: its promise settles (resolves or rejects,
\* sooner or later than the timeout), or it never settles
TaskFns == {"settles", "never settles"}

VARIABLES
    taskFn,         \* this.taskFn
    config,         \* this.config
    timeoutRef,     \* this.timeoutRef: id of the last timer armed, 0 = null
    shouldStopNow,  \* this.shouldStopNow
    latch,          \* this.latch: id of the referenced latch, 0 = null
    isRunning,      \* this.isRunning
    nextId,         \* id of the next firing scheduleNext creates
    timers,         \* firing id -> the setTimeout of that firing
    latches,        \* firing id -> count of that firing's latch
    cycles,         \* firing id -> the runTask invocation of that firing
    returned,       \* the runTask invocation that returned (or threw) in the last
                    \* step, with its locals and what it logged; none otherwise
    waiting,        \* the latches that suspended awaitShutdown calls wait on
    lastCall,       \* what the last step was: a start() (accepted or ignored), a
                    \* stop() (with or without a latch to count down), how an
                    \* awaitShutdown() went on, or "other"
    lastStop        \* whether the last stop() came while a firing was in flight
                    \* ("busy") or not ("idle"); "none" since an accepted start()

vars == << taskFn, config, timeoutRef, shouldStopNow, latch, isRunning, nextId,
           timers, latches, cycles, returned, waiting, lastCall, lastStop >>

NoTimer == [ state |-> "none", periodMs |-> 0 ]

NoCycle ==
    [ pc            |-> "none",     \* none | task | sleep | done
      attempt       |-> 0,          \* the loop variable of runTask
      invoked       |-> 0,          \* calls of taskFn
      warns         |-> 0,          \* logger.warn lines ("Attempt a failed ... Retrying")
      successes     |-> 0,          \* logger.log lines ("Task completed successfully")
      delays        |-> << >>,      \* value of getRetryDelay after each failed attempt
      terminal      |-> 0,          \* finalError thrown
      originalError |-> NoError,    \* finalError.originalError
      attempts      |-> 0,          \* finalError.attempts
      onErrorCalls  |-> 0,          \* calls of config.onError
      onErrorAttempts |-> 0,        \* context.attempts of the onError call
      callbackErrors |-> 0,         \* errors of onError caught and logged
      outcome       |-> "none" ]    \* none | success | failure | abort | exhausted

\* a run cycle that has returned: its locals are gone
DoneCycle == [ NoCycle EXCEPT !.pc = "done" ]

\* no run cycle has returned yet
NoneReturned == [ id |-> 0, cycle |-> NoCycle ]

InFlight(n) == cycles[n].pc \in {"task", "sleep"}
InFlightSet == { n \in FiringIds : InFlight(n) }
ArmedSet == { n \in FiringIds : timers[n].state = "armed" }

\* ---- createCountDownLatch ----
createCountDownLatch(count) == count

\* a countDown that does not decrement
countDownNever(count) == count

\* countDown(): count--
countDown(count) == count - 1

\* wait() returns without suspending
waitReturns(count) == count <= 0

\* countDown on latch l of the latch map L
countDownIn(L, l) == [ L EXCEPT ![l] = countDown(@) ]

\* _resolve(): the calls suspended on a latch whose count reached zero continue
release(W, L) == { l \in W : L[l] > 0 }

\* ---- getRetryDelay ----
RECURSIVE pow2(_)
pow2(k) == IF k <= 0 THEN 1 ELSE 2 * pow2(k - 1)

\* getRetryDelay with the exponent of the next attempt
getRetryDelayOfNext(attempt) ==
    CASE config.backoffStrategy = "linear"   -> attempt * config.baseRetryDelayMs
      [] config.backoffStrategy = "constant" -> config.baseRetryDelayMs
      [] OTHER                               -> pow2(attempt) * config.baseRetryDelayMs

getRetryDelay(attempt) ==
    CASE config.backoffStrategy = "linear"   -> attempt * config.baseRetryDelayMs
      [] config.backoffStrategy = "constant" -> config.baseRetryDelayMs
      [] OTHER                               -> pow2(attempt - 1) * config.baseRetryDelayMs

\* ---- scheduleNext ----
\* scheduleNext(periodMs), from the timer map T and the latch map L the caller has
\* reached: a fresh latch of count 1 becomes this.latch, a fresh timer this.timeoutRef
scheduleNext(periodMs, T, L) ==
    /\ nextId <= MaxFirings
    /\ latches' = [ L EXCEPT ![nextId] = createCountDownLatch(1) ]
    /\ latch' = nextId
    /\ timers' = [ T EXCEPT ![nextId] = [ state |-> "armed", periodMs |-> periodMs ] ]
    /\ timeoutRef' = nextId
    /\ nextId' = nextId + 1

\* the period of a rescheduled firing: the default argument of scheduleNext
pollingPeriodMs == 1000 * config.pollingPeriodSeconds

\* a timer callback whose rescheduling a terminal failure of runTask skips
schedulesNextUnlessFailed(cyc) == ~shouldStopNow /\ cyc.outcome # "failure"

\* does the timer callback schedule the next firing after its cycle ended as cyc:
\* the catch block takes the error of runTask, so the finally block goes by the
\* stop flag alone
schedulesNext(cyc) == ~shouldStopNow

\* the finally block of the timer callback of firing n, whose cycle ended as cyc
Finally(n, cyc, T) ==
    LET L == countDownIn(latches, n) IN
    /\ cycles' = [ cycles EXCEPT ![n] = DoneCycle ]
    /\ returned' = [ id |-> n, cycle |-> cyc ]
    /\ waiting' = release(waiting, L)
    /\ IF schedulesNext(cyc)
       THEN scheduleNext(pollingPeriodMs, T, L)
       ELSE /\ timers' = T
            /\ latches' = L
            /\ UNCHANGED << latch, timeoutRef, nextId >>

\* the timer callback of firing n after a step of runTask left its cycle as cyc:
\* the callback stays suspended in runTask, or runTask returned and finally runs
Settle(n, cyc, T) ==
    IF cyc.pc = "done"
    THEN Finally(n, cyc, T)
    ELSE /\ cycles' = [ cycles EXCEPT ![n] = cyc ]
         /\ timers' = T
         /\ /\ returned' = NoneReturned
         /\ UNCHANGED << latches, latch, timeoutRef, nextId, waiting >>

\* ---- runTask ----
\* the default shouldStop argument
shouldStop == shouldStopNow

\* the head of a loop iteration without the stop check
beginAttemptUnchecked(c) ==
    IF c.attempt > config.maxRetries
    THEN [ c EXCEPT !.pc = "done", !.outcome = "exhausted" ]
    ELSE [ c EXCEPT !.pc = "task", !.invoked = @ + 1 ]

\* the head of one loop iteration: the loop condition, the stop check, then the
\* call of taskFn
beginAttempt(c) ==
    IF c.attempt > config.maxRetries
    THEN [ c EXCEPT !.pc = "done", !.outcome = "exhausted" ]
    ELSE IF shouldStop
         THEN [ c EXCEPT !.pc = "done", !.outcome = "abort" ]
         ELSE [ c EXCEPT !.pc = "task", !.invoked = @ + 1 ]

\* runTask without the timeout race
timeoutRaceOff == FALSE

\* this.config.taskTimeoutMs > 0: the task is raced against the timeout
timeoutRace == config.taskTimeoutMs > 0

\* the retry test with <= for <
hasRetriesLeftOffByOne(attempt) == attempt <= config.maxRetries

\* attempt < this.config.maxRetries
hasRetriesLeft(attempt) == attempt < config.maxRetries

\* the success branch without its break: the loop goes on to the next attempt
onSuccessNoBreak(c) ==
    IF c.attempt < config.maxRetries
    THEN [ c EXCEPT !.successes = @ + 1, !.attempt = @ + 1, !.invoked = @ + 1 ]
    ELSE [ c EXCEPT !.pc = "done", !.outcome = "success", !.successes = @ + 1 ]

\* await taskPromise returned: the success line, break
onSuccess(c) ==
    [ c EXCEPT !.pc = "done", !.outcome = "success", !.successes = @ + 1 ]

\* a terminal branch whose guard around the onError call logs what the callback
\* throws and throws it on, so that it leaves runTask in place of finalError
terminalFailureRethrown(c, error, cbThrows) ==
    IF config.onError /\ cbThrows
    THEN [ c EXCEPT !.pc = "done",
                    !.outcome = "failure",
                    !.onErrorCalls = @ + 1,
                    !.onErrorAttempts = c.attempt,
                    !.callbackErrors = @ + 1 ]
    ELSE [ c EXCEPT !.pc = "done",
                    !.outcome = "failure",
                    !.terminal = @ + 1,
                    !.originalError = error,
                    !.attempts = c.attempt,
                    !.onErrorCalls = IF config.onError THEN @ + 1 ELSE @,
                    !.onErrorAttempts = IF config.onError THEN c.attempt ELSE @ ]

\* the terminal branch of the catch block; cbThrows: the onError callback throws
terminalFailure(c, error, cbThrows) ==
    [ c EXCEPT !.pc = "done",
               !.outcome = "failure",
               !.terminal = @ + 1,
               !.originalError = error,
               !.attempts = c.attempt,
               !.onErrorCalls = IF config.onError THEN @ + 1 ELSE @,
               !.onErrorAttempts = IF config.onError THEN c.attempt ELSE @,
               !.callbackErrors = IF config.onError /\ cbThrows THEN @ + 1 ELSE @ ]

\* the catch block: attempt c.attempt failed with error
onFailure(c, error, cbThrows) ==
    IF hasRetriesLeft(c.attempt)
    THEN LET c1 == [ c EXCEPT !.warns = @ + 1,
                              !.delays = Append(@, getRetryDelay(c.attempt)) ]
         IN  IF shouldStop
             \* the second promise of the race resolves at once; the next loop
             \* iteration sees the stop flag and returns null
             THEN [ c1 EXCEPT !.pc = "done", !.outcome = "abort", !.attempt = @ + 1 ]
             ELSE [ c1 EXCEPT !.pc = "sleep" ]
    ELSE terminalFailure(c, error, cbThrows)

\* ---- the events of the loop ----
\* the timer of firing n expires: the callback calls runTask
TimerFire(n) ==
    /\ timers[n].state = "armed"
    /\ lastCall' = "other"
    /\ Settle(n,
              beginAttempt([ NoCycle EXCEPT !.attempt = 1 ]),
              [ timers EXCEPT ![n].state = "fired" ])
    /\ UNCHANGED << taskFn, config, shouldStopNow, isRunning, lastStop >>

\* the promise of the task resolves
TaskResolve(n) ==
    /\ cycles[n].pc = "task"
    /\ taskFn = "settles"
    /\ lastCall' = "other"
    /\ Settle(n, onSuccess(cycles[n]), timers)
    /\ UNCHANGED << taskFn, config, shouldStopNow, isRunning, lastStop >>

\* the promise of the task rejects (or taskFn throws)
TaskReject(n) ==
    /\ cycles[n].pc = "task"
    /\ taskFn = "settles"
    /\ lastCall' = "other"
    /\ \E cbThrows \in BOOLEAN :
         /\ cbThrows => (config.onError /\ ~hasRetriesLeft(cycles[n].attempt))
         /\ Settle(n, onFailure(cycles[n], TaskError, cbThrows), timers)
    /\ UNCHANGED << taskFn, config, shouldStopNow, isRunning, lastStop >>

\* the timer of the timeout race expires before the task settled
TaskTimeout(n) ==
    /\ cycles[n].pc = "task"
    /\ timeoutRace
    /\ lastCall' = "other"
    /\ \E cbThrows \in BOOLEAN :
         /\ cbThrows => (config.onError /\ ~hasRetriesLeft(cycles[n].attempt))
         /\ Settle(n, onFailure(cycles[n], TimeoutError, cbThrows), timers)
    /\ UNCHANGED << taskFn, config, shouldStopNow, isRunning, lastStop >>

\* the sleep of the backoff wait expires: attempt++ and the next loop iteration
SleepExpire(n) ==
    /\ cycles[n].pc = "sleep"
    /\ lastCall' = "other"
    /\ Settle(n, beginAttempt([ cycles[n] EXCEPT !.attempt = @ + 1 ]), timers)
    /\ UNCHANGED << taskFn, config, shouldStopNow, isRunning, lastStop >>

\* ---- the public calls ----
NoStop == "none"

\* start() without its guard
alreadyRunningNever == FALSE

\* the guard of start()
alreadyRunning == isRunning

start ==
    IF alreadyRunning
    THEN /\ lastCall' = "start: ignored"
         /\ returned' = NoneReturned
         /\ UNCHANGED << taskFn, config, timeoutRef, shouldStopNow, latch, isRunning, nextId,
                         timers, latches, cycles, waiting, lastStop >>
    ELSE /\ lastCall' = "start"
         /\ isRunning' = TRUE
         /\ shouldStopNow' = FALSE
         /\ scheduleNext(config.initialDelayMs, timers, latches)
         /\ lastStop' = NoStop
         /\ returned' = NoneReturned
         /\ UNCHANGED << taskFn, config, cycles, waiting >>

\* clearTimeout(this.timeoutRef)
clearTimeout(T, ref) ==
    IF ref # 0 /\ T[ref].state = "armed"
    THEN [ T EXCEPT ![ref].state = "cleared" ]
    ELSE T

\* stop() without this.isRunning = false
runningAfterStopKept == isRunning

\* this.isRunning after stop()
runningAfterStop == FALSE

\* stop() that keeps the reference to the latch it counted down
stopLatchNotDropped ==
    IF latch # 0
    THEN [ latches |-> countDownIn(latches, latch), latch |-> latch ]
    ELSE [ latches |-> latches, latch |-> latch ]

\* stop() without its latch block
stopLatchKept == [ latches |-> latches, latch |-> latch ]

\* the latch block of stop(): count down this.latch and drop the reference
stopLatch ==
    IF latch # 0
    THEN [ latches |-> countDownIn(latches, latch), latch |-> 0 ]
    ELSE [ latches |-> latches, latch |-> latch ]

\* what stop() saw: was the run cycle of a firing in flight
stopSeen == IF InFlightSet = {} THEN "idle" ELSE "busy"

\* how an awaitShutdown() call with this.latch = ref and latch map L goes on
awaitOutcome(ref, L) ==
    IF ref # 0
    THEN IF waitReturns(L[ref])
         THEN "awaitShutdown: released"
         ELSE "awaitShutdown: suspended"
    ELSE "awaitShutdown: no latch"

\* the suspended calls after an awaitShutdown() call
awaitShutdown(ref, L, W) ==
    IF awaitOutcome(ref, L) = "awaitShutdown: suspended" THEN W \cup {ref} ELSE W

\* what stop() logs after "stop() called"
stopLog == IF latch # 0 THEN "stop: counting down latch" ELSE "stop"

stop ==
    /\ lastCall' = stopLog
    /\ isRunning' = runningAfterStop
    /\ shouldStopNow' = TRUE
    /\ timers' = clearTimeout(timers, timeoutRef)
    /\ latches' = stopLatch.latches
    /\ latch' = stopLatch.latch
    /\ waiting' = release(waiting, stopLatch.latches)
    /\ lastStop' = stopSeen
    /\ returned' = NoneReturned
    /\ UNCHANGED << taskFn, config, timeoutRef, nextId, cycles >>

AwaitShutdown ==
    /\ lastCall' = awaitOutcome(latch, latches)
    /\ waiting' = awaitShutdown(latch, latches, waiting)
    /\ returned' = NoneReturned
    /\ UNCHANGED << taskFn, config, timeoutRef, shouldStopNow, latch, isRunning, nextId,
                    timers, latches, cycles, lastStop >>

\* stop() and then awaitShutdown(), in the same synchronous run
stopAndWait ==
    /\ lastCall' = awaitOutcome(stopLatch.latch, stopLatch.latches)
    /\ isRunning' = runningAfterStop
    /\ shouldStopNow' = TRUE
    /\ timers' = clearTimeout(timers, timeoutRef)
    /\ latches' = stopLatch.latches
    /\ latch' = stopLatch.latch
    /\ waiting' = awaitShutdown(stopLatch.latch, stopLatch.latches,
                                release(waiting, stopLatch.latches))
    /\ lastStop' = stopSeen
    /\ returned' = NoneReturned
    /\ UNCHANGED << taskFn, config, timeoutRef, nextId, cycles >>

\* ---- the constructor ----
\* the runner a constructor call with the task fn and userConfig returns
Constructed(fn, userConfig) ==
    /\ taskFn = fn
    /\ config = mergeConfig(userConfig)
    /\ validateConfig(config)
    /\ timeoutRef = 0
    /\ shouldStopNow = FALSE
    /\ latch = 0
    /\ isRunning = FALSE
    /\ nextId = 1
    /\ timers = [ n \in FiringIds |-> NoTimer ]
    /\ latches = [ n \in FiringIds |-> 0 ]
    /\ cycles = [ n \in FiringIds |-> NoCycle ]
    /\ returned = NoneReturned
    /\ waiting = {}
    /\ lastCall = "other"
    /\ lastStop = NoStop

\* lifecycle runs: any interleaving of the public calls and the events, for a
\* runner with or without a retry, with the default backoff strategy, the timeout
\* race on (a run with taskTimeoutMs = 0 is a run in which TaskTimeout never
\* happens) and a task that may settle (a run of a task that never settles is a
\* run in which neither TaskResolve nor TaskReject happens)
Init ==
    \E userConfig \in UserConfigs(MaxRetryRuns) :
        /\ userConfig.maxRetries \in LifecycleRetries
        /\ userConfig.backoffStrategy = DEFAULT_CONFIG.backoffStrategy
        /\ userConfig.taskTimeoutMs > 0
        /\ Constructed("settles", userConfig)

Next ==
    \/ start
    \/ stop
    \/ AwaitShutdown
    \/ stopAndWait
    \/ \E n \in FiringIds : TimerFire(n)
    \/ \E n \in FiringIds : TaskResolve(n)
    \/ \E n \in FiringIds : TaskReject(n)
    \/ \E n \in FiringIds : TaskTimeout(n)
    \/ \E n \in FiringIds : SleepExpire(n)

Spec == Init /\ [][Next]_vars

\* the event loop runs the callback of every timer that stays armed
FairSpec == Spec /\ \A n \in FiringIds : WF_vars(TimerFire(n))

\* retry runs: the run cycles of one scheduling chain (start, any number of
\* firings, stop at any point, no restart), for every task, strategy and option
RetryInit ==
    \E fn \in TaskFns : \E userConfig \in UserConfigs(MaxRetryRuns) :
        Constructed(fn, userConfig)

RetryNext ==
    \/ ~shouldStopNow /\ start
    \/ stop
    \/ \E n \in FiringIds : TimerFire(n)
    \/ \E n \in FiringIds : TaskResolve(n)
    \/ \E n \in FiringIds : TaskReject(n)
    \/ \E n \in FiringIds : TaskTimeout(n)
    \/ \E n \in FiringIds : SleepExpire(n)

RetrySpec == RetryInit /\ [][RetryNext]_vars

\* the event loop runs the callback of every timer that expires: the firing timers,
\* the timeout of the race and the sleep of the backoff wait
RetryFairSpec ==
    /\ RetrySpec
    /\ \A n \in FiringIds :
         WF_vars(TimerFire(n)) /\ WF_vars(TaskTimeout(n)) /\ WF_vars(SleepExpire(n))

\* shutdown runs: the lifecycle runs of a runner with or without the timeout race
\* (and without an onError callback, which plays no part in a shutdown), in which
\* every timer that expires runs its callback (the firing timers, the timeout of
\* the race, the sleep of the backoff wait) and, without the timeout race, every
\* task settles
ShutdownInit ==
    \E userConfig \in UserConfigs(MaxRetryRuns) :
        /\ userConfig.maxRetries \in LifecycleRetries
        /\ userConfig.backoffStrategy = DEFAULT_CONFIG.backoffStrategy
        /\ ~userConfig.onError
        /\ Constructed("settles", userConfig)

ShutdownFairSpec ==
    /\ ShutdownInit /\ [][Next]_vars
    /\ \A n \in FiringIds :
         /\ WF_vars(TimerFire(n))
         /\ WF_vars(TaskTimeout(n))
         /\ WF_vars(SleepExpire(n))
         /\ WF_vars(config.taskTimeoutMs = 0 /\ (TaskResolve(n) \/ TaskReject(n)))

\* ---- what the claims speak of ----
\* the steps that are a start() call, an awaitShutdown() call (alone or inside
\* stopAndWait()), an awaitShutdown() call that went on without suspending
StartCalls == {"start", "start: ignored"}
AwaitCalls == {"awaitShutdown: no latch", "awaitShutdown: released", "awaitShutdown: suspended"}
AwaitReturned == {"awaitShutdown: no latch", "awaitShutdown: released"}

\* the scheduling chains that are active: an armed timer or a run cycle in flight
Chains == ArmedSet \cup InFlightSet

\* what start() must leave alone when it is ignored
lifecycleState == << timeoutRef, shouldStopNow, latch, isRunning, nextId, timers, latches,
                     cycles, waiting >>

\* C1: after a stop() that came while a firing was in flight, an awaitShutdown()
\* call does not go on while the run cycle of that firing is still in flight.
\* (While the runner is stopped no run cycle begins, so the cycles in flight are
\* those that were in flight at the stop().)
C1_AwaitOutlastsCycle ==
    (lastStop = "busy" /\ InFlightSet # {}) => lastCall \notin AwaitReturned

\* C2: at most one run cycle is in flight at any time.
C2_OneCycleInFlight == Cardinality(InFlightSet) <= 1

C5_AwaitAfterIdleStop ==
    (lastStop = "idle" /\ lastCall \in AwaitCalls) => lastCall \in AwaitReturned

C5_Witness ==
    /\ lastStop = "idle"
    /\ lastCall \in AwaitReturned
    /\ \E n \in FiringIds : timers[n].state = "cleared"

\* C6: while the runner is stopped no firing timer is armed.
C6_NoTimerWhileStopped == shouldStopNow => ArmedSet = {}


\* C4: a start() call on a stopped runner is accepted: it clears the stop flag and
\* arms a timer of initialDelayMs with a fresh latch; every run cycle that returns
\* while the runner is not stopped arms a timer of the polling period; and the timer
\* an accepted start() armed expires and calls the task, unless a stop() comes first.
C4_Restart ==
    /\ [][ (shouldStopNow /\ lastCall' \in StartCalls)
             => /\ lastCall' = "start"
                /\ isRunning' /\ ~shouldStopNow'
                /\ timeoutRef' = nextId /\ latch' = nextId
                /\ latches'[nextId] = 1
                /\ timers'[nextId] = [ state |-> "armed", periodMs |-> config.initialDelayMs ] ]_vars
    /\ [][ (returned'.id # 0 /\ ~shouldStopNow')
             => /\ timeoutRef' = nextId
                /\ timers'[nextId] = [ state |-> "armed",
                                       periodMs |-> 1000 * config.pollingPeriodSeconds ] ]_vars
    /\ \A n \in FiringIds :
         (lastCall = "start" /\ timeoutRef = n) ~> (cycles[n].pc = "task" \/ shouldStopNow)

\* the first timer was cleared by a stop(); the restart's firing ran the task and
\* the next firing is armed with the polling period
C4_Witness ==
    /\ timers[1].state = "cleared"
    /\ timers[2] = [ state |-> "fired", periodMs |-> config.initialDelayMs ]
    /\ returned.id = 2 /\ returned.cycle.invoked >= 1
    /\ timers[3] = [ state |-> "armed", periodMs |-> 1000 * config.pollingPeriodSeconds ]
    /\ isRunning

\* ---- the run cycles ----
\* the run cycle that has just returned
rc == returned.cycle

\* C7: a run cycle that returns without a stop signal and without a success has
\* called the task exactly maxRetries times and has thrown exactly one terminal
\* failure, which carries the error of the task and the attempt count maxRetries;
\* onError, when configured, was called exactly once, with attempts = maxRetries.
C7_AlwaysFailing ==
    (returned.id # 0 /\ rc.outcome # "abort" /\ rc.successes = 0)
        => /\ rc.outcome = "failure"
           /\ rc.invoked = config.maxRetries
           /\ rc.terminal = 1
           /\ rc.attempts = config.maxRetries
           /\ rc.originalError \in {TaskError, TimeoutError}
           /\ (config.taskTimeoutMs = 0 => rc.originalError = TaskError)
           /\ rc.onErrorCalls = (IF config.onError THEN 1 ELSE 0)
           /\ (config.onError => rc.onErrorAttempts = config.maxRetries)

C7_Witness ==
    /\ returned.id # 0
    /\ rc.outcome = "failure"
    /\ config.maxRetries = 3
    /\ rc.invoked = 3
    /\ rc.onErrorCalls = 1
    /\ rc.originalError = TaskError

\* C8: a run cycle whose task succeeds on attempt k returns at that success: the
\* task was called exactly k times, 1 <= k <= maxRetries, with k-1 retry warnings,
\* one success line, no terminal failure and no onError call.
C8_SuccessOnAttemptK ==
    (returned.id # 0 /\ rc.successes >= 1)
        => /\ rc.outcome = "success"
           /\ rc.attempt \in 1..config.maxRetries
           /\ rc.invoked = rc.attempt
           /\ rc.warns = rc.attempt - 1
           /\ rc.successes = 1
           /\ rc.terminal = 0
           /\ rc.onErrorCalls = 0
           /\ cycles[returned.id].pc = "done"

C8_Witness ==
    /\ returned.id # 0
    /\ rc.outcome = "success"
    /\ config.maxRetries = 3
    /\ rc.attempt = 3
    /\ rc.warns = 2
    /\ config.onError

\* C9: with the timeout race on and a task that never settles, a run cycle that
\* returns without a stop signal ends in a terminal failure caused by the timeout
\* after maxRetries attempts, each earlier attempt followed by a retry warning and
\* a backoff wait; and a run cycle in flight always returns (as long as the next
\* firing can be scheduled).
C9_TimeoutRetried ==
    /\ [] ( (taskFn = "never settles" /\ config.taskTimeoutMs > 0
               /\ returned.id # 0 /\ rc.outcome # "abort")
              => /\ rc.outcome = "failure"
                 /\ rc.originalError = TimeoutError
                 /\ rc.invoked = config.maxRetries
                 /\ rc.attempts = config.maxRetries
                 /\ rc.warns = config.maxRetries - 1
                 /\ Len(rc.delays) = config.maxRetries - 1 )
    /\ \A n \in FiringIds :
         (taskFn = "never settles" /\ config.taskTimeoutMs > 0 /\ InFlight(n))
            ~> (cycles[n].pc = "done" \/ nextId > MaxFirings)

C9_Witness ==
    /\ taskFn = "never settles"
    /\ config.taskTimeoutMs > 0
    /\ config.maxRetries = 3
    /\ returned.id # 0
    /\ rc.outcome = "failure"
    /\ rc.originalError = TimeoutError
    /\ rc.invoked = 3

\* the table of the backoff policy
delayTable(a) ==
    IF config.backoffStrategy = "constant" THEN config.baseRetryDelayMs
    ELSE IF config.backoffStrategy = "linear" THEN a * config.baseRetryDelayMs
    ELSE (2 ^ (a - 1)) * config.baseRetryDelayMs

\* the delays of a run cycle c follow the table: the i-th wait is delay(i), a cycle
\* in its backoff wait after attempt a waits delay(a), attempt a+1 is called after
\* a waits, and there are fewer than maxRetries waits
delaysFollowTable(c) ==
    /\ Len(c.delays) < config.maxRetries
    /\ \A i \in 1..Len(c.delays) : c.delays[i] = delayTable(i)
    /\ c.pc = "sleep" => (c.attempt < config.maxRetries /\ Len(c.delays) = c.attempt)
    /\ c.pc = "task" => Len(c.delays) = c.attempt - 1
    /\ c.outcome = "failure" => Len(c.delays) = config.maxRetries - 1

C11_FailureKeepsLoop ==
    /\ [][ (returned'.id # 0 /\ returned'.cycle.outcome = "failure" /\ ~shouldStopNow')
             => /\ latches'[returned'.id] = countDown(latches[returned'.id])
                /\ timeoutRef' = nextId
                /\ latch' = nextId
                /\ latches'[nextId] = 1
                /\ timers'[nextId] = [ state |-> "armed", periodMs |-> pollingPeriodMs ] ]_vars
    /\ \A n \in FiringIds :
         (returned.id # 0 /\ rc.outcome = "failure" /\ ~shouldStopNow /\ timeoutRef = n)
            ~> (cycles[n].pc = "task" \/ shouldStopNow)

\* the first firing has just ended in a terminal failure on a runner that was never
\* stopped, and the second firing is armed
C11_Witness ==
    /\ returned.id = 1
    /\ rc.outcome = "failure" /\ rc.terminal = 1
    /\ ~shouldStopNow /\ lastStop = NoStop
    /\ latches[1] = 0
    /\ timeoutRef = 2
    /\ timers[2] = [ state |-> "armed", periodMs |-> pollingPeriodMs ]

\* C12: a run cycle that was in flight when stop() came (and that no start() has
\* followed) ends with neither a terminal failure nor an onError call.
\* (While the runner is stopped a cycle that begins returns at its first stop
\* check, so the cycles that return are those the stop() found in flight.)
C12_StopAborts ==
    (lastStop = "busy" /\ returned.id # 0)
        => /\ rc.outcome # "failure"
           /\ rc.terminal = 0
           /\ rc.onErrorCalls = 0

\* what a run cycle that ended in a terminal failure leaves, but for the count of
\* the callback errors it logged
failureOf(c) == [ c EXCEPT !.callbackErrors = 0 ]

\* C13: an error the onError callback throws is swallowed: the run cycle ends with
\* the terminal failure it would have ended with had the callback returned (same
\* error, same attempt count, one onError call), the latch of its firing is counted
\* down, and the next firing is armed when the runner is not stopped.
C13_OnErrorThrowSwallowed ==
    [][ (returned'.id # 0 /\ returned'.cycle.callbackErrors > 0)
          => /\ \E error \in {TaskError, TimeoutError} :
                  failureOf(returned'.cycle)
                      = failureOf(terminalFailure(cycles[returned'.id], error, FALSE))
             /\ returned'.cycle.outcome = "failure"
             /\ returned'.cycle.terminal = 1
             /\ returned'.cycle.attempts = config.maxRetries
             /\ returned'.cycle.onErrorCalls = 1
             /\ returned'.cycle.callbackErrors = 1
             /\ latches'[returned'.id] = countDown(latches[returned'.id])
             /\ cycles'[returned'.id].pc = "done"
             /\ ~shouldStopNow'
                  => /\ timeoutRef' = nextId
                     /\ latches'[nextId] = 1
                     /\ timers'[nextId] = [ state |-> "armed", periodMs |-> pollingPeriodMs ] ]_vars

\* the callback threw at the end of the first firing of a runner that was never
\* stopped; the second firing is armed
C13_Witness ==
    /\ returned.id = 1
    /\ rc.callbackErrors = 1
    /\ rc.outcome = "failure"
    /\ rc.originalError = TaskError
    /\ lastStop = NoStop /\ ~shouldStopNow
    /\ latches[1] = 0
    /\ timers[2].state = "armed"

\* the steps that are a stop() call
StopCalls == {"stop", "stop: counting down latch"}

\* C14: a stop() call on a runner that is already stopped (alone or as the first
\* half of stopAndWait()) counts down no latch and leaves isRunning, the stop flag,
\* the timer handle, the timers, the latch reference and the latches as they were.
\* (stop() has no throwing statement outside its try block.)
C14_StopIdempotent ==
    /\ [][ (shouldStopNow /\ lastCall' \in StopCalls)
             => /\ lastCall' = "stop"
                /\ UNCHANGED lifecycleState ]_vars
    /\ [][ (shouldStopNow /\ stopAndWait) => UNCHANGED lifecycleState ]_vars

\* a second stop() after a start() and a stop() that found the first firing in flight
C14_Witness ==
    /\ lastCall = "stop"
    /\ shouldStopNow /\ ~isRunning
    /\ lastStop = "busy"
    /\ timers[1].state = "fired"
    /\ latches[1] = 0
    /\ latch = 0

\* the run cycles suspended in a backoff wait
Sleeping == { n \in FiringIds : cycles[n].pc = "sleep" }

\* C15: the backoff wait ends as soon as the stop flag is set: no run cycle stays
\* suspended in its backoff wait while the runner is stopped.
\* (A cycle leaves its wait otherwise only when the sleep of the delay expires.)
C15_BackoffInterruptible == shouldStopNow => Sleeping = {}

\* ---- the latches ----
\* the firings scheduled so far: each has its latch
Scheduled == 1..(nextId - 1)

\* C16: the count of every latch is 0 or 1: a countDown on a released latch leaves
\* its count at 0, also when stop() and the finally block of the firing in flight
\* both count the same latch down.
C16_LatchCountZeroOrOne == \A n \in Scheduled : latches[n] \in {0, 1}

\* the latches that are not released yet
Live == { n \in Scheduled : ~waitReturns(latches[n]) }

\* C17: at most one latch is live, and it is the latch of the firing scheduled last.
C17_OneLiveLatch == Live \subseteq {nextId - 1}

\* C18: while a firing is in flight, a latch reference the runner holds is the
\* latch of that firing, so that an awaitShutdown() call made then waits on it.
C18_LatchOfFiringInFlight == \A n \in InFlightSet : latch # 0 => latch = n

\* ---- the stop flag ----
\* C19: while the stop flag is set no step calls the task: a run cycle that awaits
\* its task stays as it is, no other cycle comes to await a task, and a cycle that
\* returns has called the task as often as it had before the step.
C19_NoInvocationWhileStopped ==
    [][ shouldStopNow
          => /\ \A n \in FiringIds : cycles'[n].pc = "task" => cycles'[n] = cycles[n]
             /\ returned'.id # 0
                  => returned'.cycle.invoked = cycles[returned'.id].invoked ]_vars

\* a timer that stop() did not clear has expired on the stopped runner, and its
\* run cycle has returned at the stop check without a call of the task
C19_Witness ==
    /\ shouldStopNow
    /\ returned.id # 0
    /\ timers[returned.id].state = "fired"
    /\ rc.outcome = "abort"
    /\ rc.attempt = 1
    /\ rc.invoked = 0

\* ---- shutdown ----
\* the model can go no further: a run cycle that returns on a runner that is not
\* stopped would schedule a firing beyond MaxFirings
AtBound == nextId > MaxFirings /\ ~shouldStopNow

\* C20: every suspended awaitShutdown() call resumes: the latch it waits on is
\* counted down, whatever start() and stop() calls come in between (in runs in
\* which every timer that expires runs its callback and every task settles or is
\* raced against the timeout).
C20_AwaitResolves ==
    \A l \in FiringIds : (l \in waiting) ~> (l \notin waiting \/ AtBound)

\* an awaitShutdown() call is suspended on the latch of the firing in flight, on a
\* runner without the timeout race
C20_Witness ==
    /\ lastCall = "awaitShutdown: suspended"
    /\ latch # 0
    /\ waiting = {latch}
    /\ InFlight(latch)
    /\ config.taskTimeoutMs = 0

====
